---- MODULE Spec2Model ----
(***************************************************************************)
(* Surface-grid illumination / occultation geometry of the Galilean-moon   *)
(* scripts: TimeFinder.py, IlluminationCalculator.py and                   *)
(* galilean_illumination.py.                                               *)
(*                                                                         *)
(* Each function of the scripts is one action: Init draws the function's   *)
(* arguments from bounded sets (pc = "call"), the action computes what the *)
(* function computes and stores what it returns (pc = "done").             *)
(*                                                                         *)
(* Number representations                                                  *)
(*  - grid longitudes and latitudes are exact rationals <<n, d>> in units  *)
(*    of pi (np.linspace is plain arithmetic on its end points);           *)
(*  - angles that go through np.sin / np.cos / np.arctan2 / np.arcsin are  *)
(*    integers counting steps of pi/HalfTurn, and the values of the        *)
(*    trigonometric functions are binary fixed-point numbers with Scale    *)
(*    standing for 1.0, every product and square root rounded to nearest,  *)
(*    as floating point rounds them (at a shorter mantissa);               *)
(*  - a floating value that can be NaN is a record [nan, v].               *)
(***************************************************************************)
EXTENDS Integers, Sequences, FiniteSets, TLC

VARIABLES
    op,            \* the function being called
    pc,            \* "call" before the function has run, "done" after
    resolution,    \* CreatePosArray: resolution
    subsolar_lon,  \* IlluminationCalculator.CreatePosArray: spice.reclat(...)[1]
    lonlat,        \* CreatePosArray: the list handed to spice.latsrf
    calls,         \* the toolkit calls made so far, in order
    pos1,          \* AngularSeparation: pos1 = <<ra1, dec1>>
    pos2,          \* AngularSeparation: pos2 = <<ra2, dec2>>
    sep,           \* AngularSeparation: the value returned
    incdnc,        \* compute_illumination: incidence angle from spice.ilumin
    illum,         \* compute_illumination: the fields of the returned dict
    srfPoints,     \* projection: the surface points
    target,        \* projection: spice.spkpos(...)[0]
    rotMatrix,     \* BodyPosRelativeSrfPos: spice.pxform(...)
    Radii,         \* GetDiskProperties: spice.bodvrd(body, "RADII", 3)[1][0]
    celestial,     \* CelestialSpherePosFinder: celestial_sphere_pos
    diskprops,     \* GetDiskProperties: the value returned
    target_wrt_surface, \* BodyPosRelativeSrfPos: the value returned
    present,       \* galilean_illumination: the kernel files that exist
    userInput,     \* galilean_illumination.main: what the user typed
    loaded,        \* the kernels spice.furnsh has loaded
    loadCalls,     \* how often load_kernels has been invoked
    kidx,          \* load_kernels: position of the loop over KERNELS
    tidx,          \* batch_example: position of the loop over times
    cleared,       \* spice.kclear has been called
    queryLog,      \* per compute_illumination call, the state it was made in
    err            \* the exception that ended the call, "none" if it returned

vars == <<op, pc, resolution, subsolar_lon, lonlat, calls, pos1, pos2, sep,
          incdnc, illum, srfPoints, target, rotMatrix, Radii, celestial,
          diskprops, target_wrt_surface, present, userInput, loaded,
          loadCalls, kidx, tidx, cleared, queryLog, err>>

(***************************************************************************)
(* Bounds of the model.                                                    *)
(***************************************************************************)
MaxRes == 4

MaxPts == 2

MaxCoord == 2

(***************************************************************************)
(* Exact rationals <<n, d>>, d > 0, in lowest terms.                       *)
(***************************************************************************)
Abs(x) == IF x < 0 THEN -x ELSE x

RECURSIVE GCD(_, _)
GCD(a, b) == IF b = 0 THEN a ELSE GCD(b, a % b)

Rat(n, d) ==
    LET s == IF d < 0 THEN -1 ELSE 1
        g == GCD(Abs(n), Abs(d))
    IN  <<(s * n) \div g, (s * d) \div g>>

RAdd(p, q) == Rat(p[1] * q[2] + q[1] * p[2], p[2] * q[2])

RSub(p, q) == Rat(p[1] * q[2] - q[1] * p[2], p[2] * q[2])

RMulInt(p, k) == Rat(p[1] * k, p[2])

RDivInt(p, k) == Rat(p[1], p[2] * k)

RLe(p, q) == p[1] * q[2] <= q[1] * p[2]

RLt(p, q) == p[1] * q[2] < q[1] * p[2]

\* np.pi, in units of pi
Pi == Rat(1, 1)

(***************************************************************************)
(* numpy array helpers, as CreatePosArray uses them.                       *)
(***************************************************************************)
\* np.linspace(start, stop, num, endpoint=...): num samples, the step being
\* (stop - start) / num without the end point and (stop - start) / (num - 1)
\* with it; with the end point the last sample is stop itself.
linspace(start, stop, num, endpoint) ==
    LET div   == IF endpoint THEN num - 1 ELSE num
        delta == RSub(stop, start)
    IN  [k \in 1..num |->
            IF endpoint /\ num > 1 /\ k = num THEN stop
            ELSE IF div > 0 THEN RAdd(start, RMulInt(RDivInt(delta, div), k - 1))
            ELSE RAdd(start, RMulInt(delta, k - 1))]

\* a[1:] with every element kept
Slice1_keepAll(a) == a

\* a[1:]
Slice1(a) == IF Len(a) = 0 THEN <<>> ELSE Tail(a)

\* np.meshgrid(x, y, indexing="ij"): one row per element of x
meshgrid_ij(x, y) ==
    << [i \in 1..Len(x) |-> [j \in 1..Len(y) |-> x[i]]],
       [i \in 1..Len(x) |-> [j \in 1..Len(y) |-> y[j]]] >>

\* np.meshgrid(x, y): two arrays of shape (len(y), len(x)), one row per
\* element of y
meshgrid(x, y) ==
    << [i \in 1..Len(y) |-> [j \in 1..Len(x) |-> x[j]]],
       [i \in 1..Len(y) |-> [j \in 1..Len(x) |-> y[i]]] >>

\* g.ravel(): the rows of g one after the other
ravel(g) ==
    IF Len(g) = 0 THEN <<>>
    ELSE LET nc == Len(g[1])
         IN  [k \in 1..(Len(g) * nc) |->
                 g[((k - 1) \div nc) + 1][((k - 1) % nc) + 1]]

\* np.column_stack((a, b)).tolist()
column_stack(a, b) == [k \in 1..Len(a) |-> <<a[k], b[k]>>]

(***************************************************************************)
(* CreatePosArray, TimeFinder.py (whole sphere) and                        *)
(* IlluminationCalculator.py (hemisphere facing the sun).                  *)
(***************************************************************************)
\* the longitudes with the end point 2*pi sampled as well
TF_longitudes_endpoint(res) == linspace(Rat(0, 1), RMulInt(Pi, 2), res, TRUE)

TF_longitudes(res) == linspace(Rat(0, 1), RMulInt(Pi, 2), res, FALSE)

TF_latitudes(res) ==
    Slice1(linspace(RDivInt(RMulInt(Pi, -1), 2), RDivInt(Pi, 2), res, FALSE))

TF_lonlat(res) ==
    LET grids == meshgrid(TF_longitudes(res), TF_latitudes(res))
    IN  column_stack(ravel(grids[1]), ravel(grids[2]))

\* the longitudes with the end point subsolar_lon + pi/2 left out
IC_longitudes_noEndpoint(res, lon) ==
    linspace(RSub(lon, RDivInt(Pi, 2)), RAdd(lon, RDivInt(Pi, 2)), res, FALSE)

IC_longitudes(res, lon) ==
    linspace(RSub(lon, RDivInt(Pi, 2)), RAdd(lon, RDivInt(Pi, 2)), res, TRUE)

IC_latitudes(res) ==
    Slice1(linspace(RDivInt(RMulInt(Pi, -1), 2), RDivInt(Pi, 2), res, FALSE))

IC_lonlat(res, lon) ==
    LET grids == meshgrid(IC_longitudes(res, lon), IC_latitudes(res))
    IN  column_stack(ravel(grids[1]), ravel(grids[2]))

\* the longitudes spice.reclat can return for the sub-solar point: (-pi, pi]
SubsolarLons == {Rat(k, 4) : k \in -3..4} \cup {Rat(1, 3), Rat(-2, 5)}

(***************************************************************************)
(* Floating-point trigonometry at a short mantissa.                        *)
(***************************************************************************)
\* np.sin at 0, pi/12, ..., pi/2, rounded to the nearest 1/256
SinTab == <<0, 66, 128, 181, 222, 247, 256>>

\* the fixed-point representation of 1.0 = np.sin(pi/2)
Scale == SinTab[Len(SinTab)]

\* np.pi in angle steps (the table covers a quarter turn)
HalfTurn == 2 * (Len(SinTab) - 1)

QuarterTurn == HalfTurn \div 2

\* np.sin of an angle given in steps of pi/HalfTurn
sin(k) ==
    LET m == k % (2 * HalfTurn)
    IN  IF m <= QuarterTurn THEN SinTab[m + 1]
        ELSE IF m <= HalfTurn THEN SinTab[HalfTurn - m + 1]
        ELSE IF m <= HalfTurn + QuarterTurn THEN -SinTab[m - HalfTurn + 1]
        ELSE -SinTab[2 * HalfTurn - m + 1]

\* np.cos of an angle given in steps of pi/HalfTurn
cos(k) == sin(k + QuarterTurn)

\* the floating product x * y, rounded to nearest
FMul(x, y) == (2 * x * y + Scale) \div (2 * Scale)

RECURSIVE FloorSqrt(_, _, _)
FloorSqrt(n, lo, hi) ==
    IF lo >= hi THEN lo
    ELSE LET mid == (lo + hi + 1) \div 2
         IN  IF mid * mid <= n THEN FloorSqrt(n, mid, hi)
             ELSE FloorSqrt(n, lo, mid - 1)

\* the integer nearest to the square root of n, 0 <= n <= hi * hi
RoundSqrt(n, hi) ==
    LET r == FloorSqrt(n, 0, hi)
    IN  IF n - r * r > r THEN r + 1 ELSE r

\* a floating value: NaN, or the number v
NaN == [nan |-> TRUE, v |-> 0]

Num(x) == [nan |-> FALSE, v |-> x]

\* the floating comparison x == y: false as soon as either side is NaN
FloatEq(x, y) == ~x.nan /\ ~y.nan /\ x.v = y.v

\* np.sqrt of the fixed-point x: NaN for a negative argument
sqrt(x) == IF x < 0 THEN NaN ELSE Num(RoundSqrt(x * Scale, x + Scale))

\* arctan of y / x for y, x >= 0, not both 0: the nearest angle step of the
\* first quadrant
Atan1(y, x) ==
    LET dist(k) == Abs(y * cos(k) - x * sin(k))
    IN  CHOOSE k \in 0..QuarterTurn :
            \A j \in 0..QuarterTurn : dist(k) < dist(j) \/ (dist(k) = dist(j) /\ k <= j)

\* np.arctan2(y, x), in angle steps: the quadrant is taken from the signs
arctan2(y, x) ==
    IF y.nan \/ x.nan THEN NaN
    ELSE IF y.v = 0 /\ x.v = 0 THEN Num(0)
    ELSE IF y.v >= 0 /\ x.v >= 0 THEN Num(Atan1(y.v, x.v))
    ELSE IF y.v >= 0 THEN Num(HalfTurn - Atan1(y.v, -x.v))
    ELSE IF x.v >= 0 THEN Num(-Atan1(-y.v, x.v))
    ELSE Num(Atan1(-y.v, -x.v) - HalfTurn)

\* np.arcsin(z), in angle steps: NaN outside [-1, 1]
arcsin(z) ==
    IF z.nan \/ Abs(z.v) > Scale THEN NaN
    ELSE LET dist(k) == Abs(sin(k) - z.v)
         IN  Num(CHOOSE k \in -QuarterTurn..QuarterTurn :
                     \A j \in -QuarterTurn..QuarterTurn :
                         dist(k) < dist(j) \/ (dist(k) = dist(j) /\ k <= j))

(***************************************************************************)
(* AngularSeparation (TimeFinder.py and IlluminationCalculator.py, the     *)
(* same text in both).  A position is <<ra, dec>> in angle steps.          *)
(***************************************************************************)
\* a = sin(delta_dec/2)**2 + cos(dec1) * cos(dec2) * sin(delta_ra/2)**2
Haversine(p1, p2) ==
    LET delta_ra  == p2[1] - p1[1]
        delta_dec == p2[2] - p1[2]
        s_dec     == sin(delta_dec \div 2)
        s_ra      == sin(delta_ra \div 2)
    IN  FMul(s_dec, s_dec) + FMul(FMul(cos(p1[2]), cos(p2[2])), FMul(s_ra, s_ra))

\* c = 2 * arctan2(sqrt(a), sqrt(1 - a))
AngularSeparation(p1, p2) ==
    LET a == Haversine(p1, p2)
        t == arctan2(sqrt(a), sqrt(Scale - a))
    IN  IF t.nan THEN NaN ELSE Num(2 * t.v)

\* right ascensions and declinations on the grid of even angle steps, so
\* that the half differences are angle steps too
EvenSteps(lo, hi) == {k \in lo..hi : k % 2 = 0}

Positions == EvenSteps(-HalfTurn + 1, HalfTurn) \X EvenSteps(-QuarterTurn, QuarterTurn)

(***************************************************************************)
(* compute_illumination (galilean_illumination.py): what it derives from   *)
(* the incidence angle spice.ilumin returns.                               *)
(***************************************************************************)
\* math.degrees of an angle given in steps
degrees(k) == (k * 180) \div HalfTurn

ShadowLimitDeg == 90

\* the night-side test with the terminator counted as shadow
InShadow_atLimit(deg) == deg >= ShadowLimitDeg

\* in_shadow = incdnc_deg > 90.0
InShadow(deg) == deg > ShadowLimitDeg

max(x, y) == IF x >= y THEN x ELSE y

compute_illumination(inc) ==
    LET incdnc_deg           == degrees(inc)
        illuminated_fraction == max(0, cos(inc))
    IN  [ solar_incidence_deg  |-> incdnc_deg,
          illuminated_fraction |-> illuminated_fraction,
          solar_flux_fraction  |-> illuminated_fraction,
          in_shadow            |-> InShadow(incdnc_deg) ]

(***************************************************************************)
(* Projection of the target onto the celestial sphere of every surface     *)
(* point.  A vector is <<x, y, z>> with integer components.                *)
(***************************************************************************)
VSub(a, b) == <<a[1] - b[1], a[2] - b[2], a[3] - b[3]>>

Dot(a, b) == a[1] * b[1] + a[2] * b[2] + a[3] * b[3]

\* row i of pts_np @ rot_np.T is rot applied to point i
MatVec(m, p) == <<Dot(m[1], p), Dot(m[2], p), Dot(m[3], p)>>

\* the shape of a two-dimensional array, given as the sequence of its rows
Rows(m) == Len(m)

Cols(m) == IF Len(m) = 0 THEN 0 ELSE Len(m[1])

\* m.T left out: the array itself
Transpose_none(m) == m

\* m.T
Transpose(m) == [j \in 1..Cols(m) |-> [i \in 1..Rows(m) |-> m[i][j]]]

RECURSIVE SumProd(_, _, _, _, _)
\* a[i][1] * b[1][j] + ... + a[i][n] * b[n][j]
SumProd(a, b, i, j, n) ==
    IF n = 0 THEN 0 ELSE SumProd(a, b, i, j, n - 1) + a[i][n] * b[n][j]

\* a @ b for a of shape (N, 3): numpy accepts it when b has 3 rows
MatMulOk(b) == Rows(b) = 3

MatMul(a, b) ==
    [i \in 1..Len(a) |-> [j \in 1..Cols(b) |-> SumProd(a, b, i, j, Rows(b))]]

\* t - m for t of shape (3,) and m with rows of the given width: numpy
\* broadcasts when the width is 3, and also when it is 1 (the one entry of
\* the row is then subtracted from each component of t)
BroadcastOk(width) == width \in {1, 3}

SubBroadcast(t, m) ==
    [i \in 1..Len(m) |->
        [j \in 1..3 |-> t[j] - (IF Len(m[i]) = 1 THEN m[i][1] ELSE m[i][j])]]

\* TimeFinder.BodyPosRelativeSrfPos: surfPoints_j2000 = pts_np @ rot_np.T
surfPoints_j2000(rot, pts) == MatMul(pts, Transpose(rot))

\* TimeFinder.BodyPosRelativeSrfPos: target_wrt_obs - surfPoints_j2000
BodyPosRelativeSrfPos(rot, tgt, pts) ==
    SubBroadcast(tgt, surfPoints_j2000(rot, pts))

\* the exception BodyPosRelativeSrfPos ends with: numpy's ValueError when the
\* shapes do not fit the product or the subtraction, "none" when it returns
BodyPosRelativeSrfPosError(rot) ==
    IF ~MatMulOk(Transpose(rot)) THEN "ValueError"
    ELSE IF ~BroadcastOk(Cols(Transpose(rot))) THEN "ValueError"
    ELSE "none"

\* np.linalg.norm of one row, as a fixed-point number
norm(w) == RoundSqrt(Dot(w, w) * Scale * Scale, Scale * Dot(w, w))

\* the floating quotient c / n of an integer c by the fixed-point n: 0 / 0 is
\* NaN (of a row with norm 0 every component is 0)
FDiv(c, n) ==
    IF n = 0 THEN NaN
    ELSE Num((2 * c * Scale * Scale + n) \div (2 * n))

\* one row of celestial_sphere_pos: <<right_ascension, declination>>
CelestialRow(w) ==
    LET n  == norm(w)
        xn == FDiv(w[1], n)
        yn == FDiv(w[2], n)
        zn == FDiv(w[3], n)
    IN  <<arctan2(yn, xn), arcsin(zn)>>

\* TimeFinder.CelestialSpherePosFinder
CelestialSpherePosFinder(rot, tgt, pts) ==
    LET wrt_surface == BodyPosRelativeSrfPos(rot, tgt, pts)
    IN  [i \in 1..Len(pts) |-> CelestialRow(wrt_surface[i])]

\* spice.recrad: <<range, ra, dec>> with ra in [0, 2*pi) and dec in
\* [-pi/2, pi/2]; the zero vector gives <<0, 0, 0>>
recrad(w) ==
    LET lon == IF w[1] = 0 /\ w[2] = 0 THEN 0
               ELSE arctan2(Num(w[2]), Num(w[1])).v
        xy  == RoundSqrt((w[1] * w[1] + w[2] * w[2]) * Scale * Scale,
                         Scale * (w[1] * w[1] + w[2] * w[2]))
        lat == arctan2(Num(w[3] * Scale), Num(xy)).v
    IN  IF w = <<0, 0, 0>> THEN <<0, 0, 0>>
        ELSE <<norm(w), IF lon < 0 THEN lon + 2 * HalfTurn ELSE lon, lat>>

\* the disk properties [body_RA, body_Dec, body_ang_radius] of one point
DiskPropsOf(body_pos, point, radius) ==
    LET body_pos_rel_srf == VSub(body_pos, point)
        body_rad_pos     == recrad(body_pos_rel_srf)
        body_dis         == body_rad_pos[1]
    IN  <<body_rad_pos[2], body_rad_pos[3], Atan1(radius * Scale, body_dis)>>

\* IlluminationCalculator.GetDiskProperties: the return statement is inside
\* the loop, so the first point's list is returned; with no point the loop
\* body never runs and None (here the empty list) is returned
GetDiskProperties(body_pos, pts, radius) ==
    IF Len(pts) = 0 THEN <<>>
    ELSE DiskPropsOf(body_pos, pts[1], radius)

Identity == << <<1, 0, 0>>, <<0, 1, 0>>, <<0, 0, 1>> >>

RotZ == << <<0, -1, 0>>, <<1, 0, 0>>, <<0, 0, 1>> >>

RotX == << <<1, 0, 0>>, <<0, 0, -1>>, <<0, 1, 0>> >>

\* the rotations spice.pxform is taken to return
Rotations == {Identity, RotZ, RotX}

\* arrays of another shape than 3 x 3 standing in for spice.pxform's result:
\* 2 x 3, 4 x 3, 1 x 3 and 3 x 2
MalformedRotations ==
    { << <<0, -1, 0>>, <<1, 0, 0>> >>,
      << <<0, -1, 0>>, <<1, 0, 0>>, <<0, 0, 1>>, <<0, 0, 1>> >>,
      << <<0, -1, 1>> >>,
      << <<0, -1>>, <<1, 0>>, <<0, 0>> >> }

\* the surface points spice.latsrf is taken to return (unit sphere)
SrfPointSet == { <<1, 0, 0>>, <<0, 1, 0>>, <<0, 0, -1>> }

SrfPointLists == UNION { [1..n -> SrfPointSet] : n \in 0..MaxPts }

\* the target positions spice.spkpos is taken to return
Targets == (-MaxCoord..MaxCoord) \X (-MaxCoord..MaxCoord) \X {-1, 0, 1}

RadiiSet == {1, 2}

(***************************************************************************)
(* galilean_illumination.py: the kernels and the two entry points.         *)
(***************************************************************************)
KERNELS == <<"naif0012.tls", "de442s.bsp", "pck00011.tpc", "jup365.bsp">>

KernelSet == {KERNELS[k] : k \in 1..Len(KERNELS)}

\* len(times) in batch_example
NumTimes == 5

\* what main reads: a known moon and two numbers, an unknown moon name, or a
\* latitude or longitude float() cannot parse
UserInputs == {"ok", "badMoon", "badFloat"}

\* no kernel file is ever found missing
KernelMissing_never(k) == FALSE

\* load_kernels: not os.path.isfile(path)
KernelMissing(k) == k \notin present

(***************************************************************************)
(* The state machine: one call of one function per behaviour; main and     *)
(* batch_example of galilean_illumination.py run statement by statement.   *)
(***************************************************************************)
NoIllum == [ solar_incidence_deg |-> 0, illuminated_fraction |-> 0,
             solar_flux_fraction |-> 0, in_shadow |-> FALSE ]

\* the variables a call does not use
Idle(used) ==
    /\ pc = "call"
    /\ calls = <<>>
    /\ lonlat = <<>>
    /\ sep = Num(0)
    /\ illum = NoIllum
    /\ celestial = <<>>
    /\ diskprops = <<>>
    /\ target_wrt_surface = <<>>
    /\ loaded = {}
    /\ loadCalls = 0
    /\ kidx = 0
    /\ tidx = 0
    /\ cleared = FALSE
    /\ queryLog = <<>>
    /\ err = "none"
    /\ IF "present" \in used THEN TRUE ELSE present = KernelSet
    /\ IF "userInput" \in used THEN TRUE ELSE userInput = "ok"
    /\ IF "resolution" \in used THEN TRUE ELSE resolution = 0
    /\ IF "subsolar_lon" \in used THEN TRUE ELSE subsolar_lon = Rat(0, 1)
    /\ IF "pos" \in used THEN TRUE ELSE pos1 = <<0, 0>> /\ pos2 = <<0, 0>>
    /\ IF "incdnc" \in used THEN TRUE ELSE incdnc = 0
    /\ IF "srfPoints" \in used THEN TRUE ELSE srfPoints = <<>>
    /\ IF "target" \in used THEN TRUE ELSE target = <<0, 0, 0>>
    /\ IF "rotMatrix" \in used THEN TRUE ELSE rotMatrix = Identity
    /\ IF "Radii" \in used THEN TRUE ELSE Radii = 1

Init ==
    \/ /\ op = "TF_CreatePosArray"
       /\ resolution \in 0..MaxRes
       /\ Idle({"resolution"})
    \/ /\ op = "IC_CreatePosArray"
       /\ resolution \in 0..MaxRes
       /\ subsolar_lon \in SubsolarLons
       /\ Idle({"resolution", "subsolar_lon"})
    \/ /\ op = "AngularSeparation"
       /\ pos1 \in Positions
       /\ pos2 \in Positions
       /\ Idle({"pos"})
    \/ /\ op = "compute_illumination"
       /\ incdnc \in 0..HalfTurn
       /\ Idle({"incdnc"})
    \/ /\ op = "TF_CelestialSpherePosFinder"
       /\ srfPoints \in SrfPointLists
       /\ target \in Targets
       /\ rotMatrix \in Rotations
       /\ Idle({"srfPoints", "target", "rotMatrix"})
    \/ /\ op = "IC_CelestialSpherePosFinder"
       /\ srfPoints \in SrfPointLists
       /\ target \in Targets
       /\ rotMatrix \in Rotations
       /\ Idle({"srfPoints", "target", "rotMatrix"})
    \/ /\ op = "BodyPosRelativeSrfPos"
       /\ srfPoints \in SrfPointLists
       /\ target \in Targets
       /\ rotMatrix \in Rotations \cup MalformedRotations
       /\ Idle({"srfPoints", "target", "rotMatrix"})
    \/ /\ op = "GetDiskProperties"
       /\ srfPoints \in SrfPointLists
       /\ target \in Targets
       /\ Radii \in RadiiSet
       /\ Idle({"srfPoints", "target", "Radii"})
    \/ /\ op = "main"
       /\ present \in SUBSET KernelSet
       /\ userInput \in UserInputs
       /\ Idle({"present", "userInput"})
    \/ /\ op = "batch_example"
       /\ present \in SUBSET KernelSet
       /\ Idle({"present"})

Inputs == <<op, resolution, subsolar_lon, pos1, pos2, incdnc, srfPoints,
            target, rotMatrix, Radii>>

Session == <<present, userInput, loaded, loadCalls, kidx, tidx, cleared, queryLog>>

\* TimeFinder.CreatePosArray
TF_CreatePosArray ==
    /\ op = "TF_CreatePosArray" /\ pc = "call"
    /\ lonlat' = TF_lonlat(resolution)
    /\ calls' = calls \o <<"latsrf">>
    /\ pc' = "done"
    /\ UNCHANGED <<Inputs, Session, sep, illum, celestial, diskprops, err, target_wrt_surface>>

\* IlluminationCalculator.CreatePosArray
IC_CreatePosArray ==
    /\ op = "IC_CreatePosArray" /\ pc = "call"
    /\ lonlat' = IC_lonlat(resolution, subsolar_lon)
    /\ calls' = calls \o <<"subslr", "reclat", "latsrf">>
    /\ pc' = "done"
    /\ UNCHANGED <<Inputs, Session, sep, illum, celestial, diskprops, err, target_wrt_surface>>

\* AngularSeparation (either file)
CallAngularSeparation ==
    /\ op = "AngularSeparation" /\ pc = "call"
    /\ sep' = AngularSeparation(pos1, pos2)
    /\ pc' = "done"
    /\ UNCHANGED <<Inputs, Session, lonlat, calls, illum, celestial, diskprops, err, target_wrt_surface>>

\* galilean_illumination.compute_illumination
CallComputeIllumination ==
    /\ op = "compute_illumination" /\ pc = "call"
    /\ illum' = compute_illumination(incdnc)
    /\ calls' = calls \o <<"str2et", "bodn2c", "srfrec", "ilumin">>
    /\ pc' = "done"
    /\ UNCHANGED <<Inputs, Session, lonlat, sep, celestial, diskprops, err, target_wrt_surface>>

\* TimeFinder.CelestialSpherePosFinder
TF_CelestialSpherePosFinder ==
    /\ op = "TF_CelestialSpherePosFinder" /\ pc = "call"
    /\ celestial' = CelestialSpherePosFinder(rotMatrix, target, srfPoints)
    /\ calls' = calls \o <<"pxform", "spkpos", "spkpos">>
    /\ pc' = "done"
    /\ UNCHANGED <<Inputs, Session, lonlat, sep, illum, diskprops, err, target_wrt_surface>>

\* IlluminationCalculator.CelestialSpherePosFinder: the module defines no
\* BodyPosRelativeSrfPos (its text sits in a string literal), so the first
\* statement raises NameError
IC_CelestialSpherePosFinder ==
    /\ op = "IC_CelestialSpherePosFinder" /\ pc = "call"
    /\ err' = "NameError"
    /\ pc' = "done"
    /\ UNCHANGED <<Inputs, Session, lonlat, calls, sep, illum, celestial, diskprops, target_wrt_surface>>

\* TimeFinder.BodyPosRelativeSrfPos: spice.pxform, the product, the two
\* spice.spkpos calls, the subtraction; a ValueError ends the call where the
\* shapes do not fit
CallBodyPosRelativeSrfPos ==
    /\ op = "BodyPosRelativeSrfPos" /\ pc = "call"
    /\ err' = BodyPosRelativeSrfPosError(rotMatrix)
    /\ calls' = calls \o <<"pxform">>
                      \o (IF MatMulOk(Transpose(rotMatrix))
                          THEN <<"spkpos", "spkpos">> ELSE <<>>)
    /\ target_wrt_surface' =
           IF BodyPosRelativeSrfPosError(rotMatrix) = "none"
           THEN BodyPosRelativeSrfPos(rotMatrix, target, srfPoints)
           ELSE <<>>
    /\ pc' = "done"
    /\ UNCHANGED <<Inputs, Session, lonlat, sep, illum, celestial, diskprops>>

\* IlluminationCalculator.GetDiskProperties
CallGetDiskProperties ==
    /\ op = "GetDiskProperties" /\ pc = "call"
    /\ diskprops' = GetDiskProperties(target, srfPoints, Radii)
    /\ calls' = calls \o <<"bodvrd", "spkpos">>
                      \o (IF Len(srfPoints) = 0 THEN <<>> ELSE <<"recrad">>)
    /\ pc' = "done"
    /\ UNCHANGED <<Inputs, Session, lonlat, sep, illum, celestial, err, target_wrt_surface>>

\* main up to load_kernels: a moon name that is no key of GALILEAN_MOONS and
\* a number float() rejects raise ValueError
Main_ReadInput ==
    /\ op = "main" /\ pc = "call"
    /\ IF userInput = "ok"
       THEN pc' = "load_kernels" /\ err' = err
       ELSE pc' = "done" /\ err' = "ValueError"
    /\ UNCHANGED <<Inputs, Session, lonlat, calls, sep, illum, celestial,
                   diskprops, target_wrt_surface>>

\* load_kernels is invoked: by main after its input, by batch_example as its
\* first statement
LoadKernels_Call ==
    /\ \/ op = "main" /\ pc = "load_kernels"
       \/ op = "batch_example" /\ pc = "call"
    /\ loadCalls' = loadCalls + 1
    /\ kidx' = 1
    /\ pc' = "furnsh"
    /\ UNCHANGED <<Inputs, present, userInput, loaded, tidx, cleared, queryLog,
                   lonlat, calls, sep, illum, celestial, diskprops,
                   target_wrt_surface, err>>

\* load_kernels, one turn of its loop: a missing file raises
\* FileNotFoundError, a file that exists is loaded; after the last kernel the
\* function returns
LoadKernels_Step ==
    /\ op \in {"main", "batch_example"} /\ pc = "furnsh"
    /\ IF kidx > Len(KERNELS)
       THEN /\ pc' = "query"
            /\ tidx' = 1
            /\ UNCHANGED <<loaded, kidx, calls, err>>
       ELSE IF KernelMissing(KERNELS[kidx])
       THEN /\ err' = "FileNotFoundError"
            /\ pc' = "done"
            /\ UNCHANGED <<loaded, kidx, tidx, calls>>
       ELSE /\ loaded' = loaded \cup {KERNELS[kidx]}
            /\ calls' = calls \o <<"furnsh">>
            /\ kidx' = kidx + 1
            /\ UNCHANGED <<pc, tidx, err>>
    /\ UNCHANGED <<op, resolution, subsolar_lon, pos1, pos2, incdnc, srfPoints,
                   target, rotMatrix, Radii, present, userInput, loadCalls,
                   cleared, queryLog, lonlat, sep, illum, celestial, diskprops,
                   target_wrt_surface>>

\* one compute_illumination call of main or batch_example: the toolkit
\* answers with an incidence angle, or raises and ends the run
Query ==
    /\ op \in {"main", "batch_example"} /\ pc = "query"
    /\ queryLog' = Append(queryLog, [ loaded    |-> loaded,
                                      loadCalls |-> loadCalls,
                                      returned  |-> kidx > Len(KERNELS),
                                      cleared   |-> cleared ])
    /\ \/ /\ \E inc \in 0..HalfTurn :
                 /\ incdnc' = inc
                 /\ illum' = compute_illumination(inc)
          /\ calls' = calls \o <<"str2et", "bodn2c", "srfrec", "ilumin">>
          /\ IF op = "batch_example" /\ tidx < NumTimes
             THEN pc' = "query" /\ tidx' = tidx + 1
             ELSE pc' = "kclear" /\ tidx' = tidx
          /\ err' = err
       \/ /\ err' = "SpiceyError"
          /\ calls' = calls \o <<"str2et">>
          /\ pc' = "done"
          /\ UNCHANGED <<incdnc, illum, tidx>>
    /\ UNCHANGED <<op, resolution, subsolar_lon, pos1, pos2, srfPoints, target,
                   rotMatrix, Radii, present, userInput, loaded, loadCalls, kidx,
                   cleared, lonlat, sep, celestial, diskprops,
                   target_wrt_surface>>

\* spice.kclear(), the last statement of main and of batch_example
KClear ==
    /\ op \in {"main", "batch_example"} /\ pc = "kclear"
    /\ loaded' = {}
    /\ cleared' = TRUE
    /\ calls' = calls \o <<"kclear">>
    /\ pc' = "done"
    /\ UNCHANGED <<Inputs, present, userInput, loadCalls, kidx, tidx, queryLog,
                   lonlat, sep, illum, celestial, diskprops,
                   target_wrt_surface, err>>

Next ==
    \/ TF_CreatePosArray
    \/ IC_CreatePosArray
    \/ CallAngularSeparation
    \/ CallComputeIllumination
    \/ TF_CelestialSpherePosFinder
    \/ IC_CelestialSpherePosFinder
    \/ CallBodyPosRelativeSrfPos
    \/ CallGetDiskProperties
    \/ Main_ReadInput
    \/ LoadKernels_Call
    \/ LoadKernels_Step
    \/ Query
    \/ KClear

Spec == Init /\ [][Next]_vars

(***************************************************************************)
(* Properties of grid generation.                                          *)
(***************************************************************************)
GridDone(o) == op = o /\ pc = "done" /\ resolution >= 2

LonSet == {lonlat[k][1] : k \in 1..Len(lonlat)}

LatSet == {lonlat[k][2] : k \in 1..Len(lonlat)}

PairSet == {lonlat[k] : k \in 1..Len(lonlat)}

\* latitude sample j of N: -pi/2 + j * pi / N
LatSample(j, N) == Rat(2 * j - N, 2 * N)

C2_FullSphereSamples ==
    GridDone("TF_CreatePosArray") =>
        /\ LonSet = {Rat(2 * k, resolution) : k \in 0..(resolution - 1)}
        /\ LatSet = {LatSample(j, resolution) : j \in 1..(resolution - 1)}
        /\ \A q \in LonSet : RLe(Rat(0, 1), q) /\ RLt(q, Rat(2, 1))
        /\ \A q \in LatSet : RLt(Rat(-1, 2), q) /\ RLt(q, Rat(1, 2))
        /\ resolution = 3 =>
               PairSet = {Rat(0, 1), Rat(2, 3), Rat(4, 3)} \X {Rat(-1, 6), Rat(1, 6)}

C2_Witness ==
    /\ GridDone("TF_CreatePosArray")
    /\ resolution = 3
    /\ <<Rat(4, 3), Rat(1, 6)>> \in PairSet

\* C3 as stated: the grid is longitude-major, all latitudes of one longitude
\* being listed consecutively before the next longitude begins.
C3_LongitudeMajor ==
    (GridDone("TF_CreatePosArray") \/ GridDone("IC_CreatePosArray")) =>
        \A p, q \in 1..Len(lonlat) :
            (p < q /\ lonlat[p][1] = lonlat[q][1]) =>
                \A r \in p..q : lonlat[r][1] = lonlat[p][1]

\* C3 as amended: the grid is latitude-major, then longitude: the pairs are
\* listed by increasing latitude, and the pairs of one latitude by increasing
\* longitude, so all longitudes of one latitude are consecutive.
C3_LatitudeMajor ==
    (GridDone("TF_CreatePosArray") \/ GridDone("IC_CreatePosArray")) =>
        \A p, q \in 1..Len(lonlat) :
            p < q =>
                \/ RLt(lonlat[p][2], lonlat[q][2])
                \/ lonlat[p][2] = lonlat[q][2] /\ RLt(lonlat[p][1], lonlat[q][1])

C3_Witness ==
    /\ GridDone("TF_CreatePosArray")
    /\ resolution = 3
    /\ lonlat[1][2] = lonlat[2][2]
    /\ lonlat[1][1] # lonlat[2][1]
    /\ lonlat[1][1] = lonlat[4][1]

\* C4: facing the sun with resolution N >= 2 and sub-solar longitude L, the N
\* longitudes are uniformly spaced over [L - pi/2, L + pi/2] with both end
\* points sampled, every longitude is within pi/2 of L, and the latitudes are
\* those of the whole-sphere grid.
C4_SunFacingSamples ==
    GridDone("IC_CreatePosArray") =>
        /\ LonSet = { RAdd(RSub(subsolar_lon, Rat(1, 2)), Rat(k, resolution - 1)) :
                        k \in 0..(resolution - 1) }
        /\ lonlat[1][1] = RSub(subsolar_lon, Rat(1, 2))
        /\ lonlat[resolution][1] = RAdd(subsolar_lon, Rat(1, 2))
        /\ \A q \in LonSet : /\ RLe(RSub(subsolar_lon, Rat(1, 2)), q)
                             /\ RLe(q, RAdd(subsolar_lon, Rat(1, 2)))
        /\ LatSet = {LatSample(j, resolution) : j \in 1..(resolution - 1)}

C4_Witness ==
    /\ GridDone("IC_CreatePosArray")
    /\ resolution = 3
    /\ subsolar_lon = Rat(1, 3)
    /\ LonSet = {Rat(-1, 6), Rat(1, 3), Rat(5, 6)}

(***************************************************************************)
(* Properties of AngularSeparation.                                        *)
(***************************************************************************)
SepDone == op = "AngularSeparation" /\ pc = "done"

\* C5: AngularSeparation is symmetric and vanishes on the diagonal:
\* AngularSeparation(a, b) == AngularSeparation(b, a) for all a, b, and
\* AngularSeparation(a, a) == 0 for every a.
C5_SymmetricZeroDiagonal ==
    SepDone =>
        /\ FloatEq(sep, AngularSeparation(pos2, pos1))
        /\ pos1 = pos2 => FloatEq(sep, Num(0))

\* C6: the haversine intermediate is clamped to [0, 1] before the square
\* roots, so the result is never NaN and always lies in [0, pi]; the
\* equatorial positions ra = 0 and ra = pi are exactly pi apart.
C6_NeverNaNWithinRange ==
    SepDone =>
        /\ ~sep.nan
        /\ 0 <= sep.v /\ sep.v <= HalfTurn
        /\ (pos1 = <<0, 0>> /\ pos2 = <<HalfTurn, 0>>) => sep = Num(HalfTurn)

(***************************************************************************)
(* Properties of the illumination classification.                          *)
(***************************************************************************)
IllumDone == op = "compute_illumination" /\ pc = "done"

\* C7: illuminated_fraction = max(0, cos theta) and in_shadow holds iff
\* theta > pi/2 strictly: theta = 0 gives fraction 1 and no shadow,
\* theta = pi/2 gives fraction 0 and no shadow, theta > pi/2 gives fraction 0
\* and shadow, and in_shadow implies illuminated_fraction = 0.
C7_IlluminationClassification ==
    IllumDone =>
        /\ illum.illuminated_fraction =
               (IF incdnc <= QuarterTurn THEN sin(QuarterTurn - incdnc) ELSE 0)
        /\ illum.in_shadow <=> incdnc > QuarterTurn
        /\ incdnc = 0 => illum.illuminated_fraction = Scale /\ ~illum.in_shadow
        /\ incdnc = QuarterTurn => illum.illuminated_fraction = 0 /\ ~illum.in_shadow
        /\ incdnc > QuarterTurn => illum.illuminated_fraction = 0 /\ illum.in_shadow
        /\ illum.in_shadow => illum.illuminated_fraction = 0

C7_Witness ==
    /\ IllumDone
    /\ incdnc = QuarterTurn
    /\ illum.illuminated_fraction = 0
    /\ ~illum.in_shadow

(***************************************************************************)
(* Properties of the projection onto the celestial sphere.                 *)
(***************************************************************************)
ProjDone(o) == op = o /\ pc = "done"

\* the target-minus-point vector of point i, per function
TF_Vector(i) == VSub(target, MatVec(rotMatrix, srfPoints[i]))

IC_Vector(i) == VSub(target, srfPoints[i])

Zero3 == <<0, 0, 0>>

InRaRange(a) == -HalfTurn < a /\ a <= HalfTurn

InDecRange(a) == -QuarterTurn <= a /\ a <= QuarterTurn

\* C8: every coordinate CelestialSpherePosFinder and GetDiskProperties
\* produce for a non-zero target-minus-point vector has its declination in
\* [-pi/2, pi/2] and its right ascension in (-pi, pi].
C8_CoordinateRanges ==
    /\ ProjDone("TF_CelestialSpherePosFinder") =>
           \A i \in 1..Len(celestial) :
               TF_Vector(i) # Zero3 =>
                   /\ ~celestial[i][1].nan /\ InRaRange(celestial[i][1].v)
                   /\ ~celestial[i][2].nan /\ InDecRange(celestial[i][2].v)
    /\ (ProjDone("GetDiskProperties") /\ Len(diskprops) > 0 /\ IC_Vector(1) # Zero3) =>
           /\ InRaRange(diskprops[1])
           /\ InDecRange(diskprops[2])

\* the number of per-point results GetDiskProperties returned: None holds
\* none, the list [body_RA, body_Dec, body_ang_radius] is one point's result
DiskResultCount == IF diskprops = <<>> THEN 0 ELSE 1

\* C9: the batch projections process every surface point and return one
\* result per input point, in input order: for N points,
\* CelestialSpherePosFinder and GetDiskProperties each return N results.
C9_OneResultPerPoint ==
    /\ ProjDone("TF_CelestialSpherePosFinder") =>
           /\ Len(celestial) = Len(srfPoints)
           /\ \A i \in 1..Len(srfPoints) :
                  celestial[i] = CelestialRow(TF_Vector(i))
    /\ ProjDone("GetDiskProperties") =>
           DiskResultCount = Len(srfPoints)

\* C10: when a surface point coincides with the target (zero target-minus-
\* point vector), the projection fails with DegenerateGeometry and yields no
\* NaN right ascension or declination.
C10_DegenerateGeometry ==
    (/\ ProjDone("TF_CelestialSpherePosFinder") \/ ProjDone("IC_CelestialSpherePosFinder")
     /\ \E i \in 1..Len(srfPoints) : TF_Vector(i) = Zero3) =>
        /\ err = "DegenerateGeometry"
        /\ \A i \in 1..Len(celestial) : ~celestial[i][1].nan /\ ~celestial[i][2].nan

(***************************************************************************)
(* Properties of the frame transform.                                      *)
(***************************************************************************)
FrameDone == op = "BodyPosRelativeSrfPos" /\ pc = "done"

Is3x3(m) == Rows(m) = 3 /\ Cols(m) = 3

\* C11: one fixed 3x3 rotation R is applied to the whole grid: for N points
\* the transform yields exactly N vectors, vector i being the matrix-vector
\* product R * p_i (length and order kept), and the vector handed on to the
\* projection for point i is target - R * p_i.
C11_FrameTransform ==
    (FrameDone /\ Is3x3(rotMatrix)) =>
        /\ err = "none"
        /\ Len(surfPoints_j2000(rotMatrix, srfPoints)) = Len(srfPoints)
        /\ Len(target_wrt_surface) = Len(srfPoints)
        /\ \A i \in 1..Len(srfPoints) :
               /\ surfPoints_j2000(rotMatrix, srfPoints)[i]
                      = MatVec(rotMatrix, srfPoints[i])
               /\ target_wrt_surface[i]
                      = VSub(target, MatVec(rotMatrix, srfPoints[i]))

C11_Witness ==
    /\ FrameDone
    /\ rotMatrix = RotZ
    /\ srfPoints = << <<1, 0, 0>>, <<0, 0, -1>> >>
    /\ target = <<2, -1, 1>>
    /\ target_wrt_surface = << <<2, -2, 1>>, <<2, -1, 2>> >>

\* the failure that stands for InvalidRotation: the code names no error of
\* its own, a shape numpy rejects raises ValueError
RotationRejected == err \in {"InvalidRotation", "ValueError"}

CallsMade == {calls[k] : k \in 1..Len(calls)}

\* C13: with resolution < 2 (0 and 1 in particular) grid generation fails
\* with InvalidResolution before any surface-point call of the toolkit is
\* made; no empty or partial longitude/latitude list is handed to it.
C13_InvalidResolution ==
    (/\ op \in {"TF_CreatePosArray", "IC_CreatePosArray"}
     /\ pc = "done"
     /\ resolution < 2) =>
        /\ err = "InvalidResolution"
        /\ "latsrf" \notin CallsMade

(***************************************************************************)
(* Load once, query many: main and batch_example.                          *)
(***************************************************************************)
SessionRun == op \in {"main", "batch_example"}

\* main raised ValueError on what the user typed, before load_kernels
InputRejected == op = "main" /\ userInput # "ok"

\* every compute_illumination call so far was made after load_kernels had
\* returned with all four kernels loaded and before kclear
QueriesWellPlaced ==
    /\ \A k \in 1..Len(queryLog) :
          /\ queryLog[k].returned
          /\ queryLog[k].loadCalls = 1
          /\ queryLog[k].loaded = KernelSet
          /\ ~queryLog[k].cleared
    /\ (queryLog # <<>> => present = KernelSet)
    /\ (present # KernelSet /\ pc = "done" /\ ~InputRejected
          => err = "FileNotFoundError" /\ queryLog = <<>>)
    /\ (cleared => pc = "done")

\* C14 as stated: every finished run of main and of batch_example has invoked
\* load_kernels exactly once, made every compute_illumination call after
\* load_kernels returned with all four kernels loaded (a missing kernel file
\* raises FileNotFoundError before any query), and made none after kclear.
C14_LoadExactlyOnce ==
    (SessionRun /\ pc = "done") => loadCalls = 1 /\ QueriesWellPlaced

\* C14, amended: load_kernels is invoked at most once, and exactly once in
\* every run that gets past main's input validation; every
\* compute_illumination call is made after load_kernels returned with all four
\* kernels loaded (a missing kernel file raises FileNotFoundError before any
\* query), and none is made after kclear.
C14_LoadOnceQueryMany ==
    SessionRun =>
        /\ loadCalls <= 1
        /\ (pc = "done" /\ ~InputRejected => loadCalls = 1)
        /\ (pc = "done" /\ InputRejected => loadCalls = 0 /\ queryLog = <<>>)
        /\ QueriesWellPlaced

\* batch_example ran to its end: five queries between the load and kclear
C14_Witness ==
    /\ op = "batch_example" /\ pc = "done" /\ err = "none"
    /\ loadCalls = 1
    /\ Len(queryLog) = NumTimes
    /\ cleared

====
